---- MODULE Spec2Model ----
(***************************************************************************)
(* The tiered memory store of BaozongSuperAgent                             *)
(* (src/memory/hybrid_memory_fixed.py, class HybridMemorySystem) and its    *)
(* recall / ranking engine.                                                 *)
(*                                                                          *)
(* Conventions of the model                                                 *)
(*  - A Python str is a sequence of one-character strings, so that lower(), *)
(*    the `in` substring test and startswith() are computed, not assumed.   *)
(*  - importance is kept in tenths (0.9 is 9); time is in seconds.          *)
(*  - A score is kept as the exact rational final_score * 100 * Week, so    *)
(*    that 0.6*match + 0.3*importance + 0.1*time_factor is an integer.      *)
(*    The inputs are chosen so that two scores are equal in this exact      *)
(*    arithmetic only when the same float operations produce them (same     *)
(*    match score, same importance, same recency factor).                   *)
(*  - A dict is a sequence of [key, value] pairs in key insertion order,    *)
(*    which is the order in which Python iterates it.                       *)
(*  - _generate_id (md5 of content + str(time), 12 hex digits) is modelled  *)
(*    as the pair <<content, time read>>, i.e. as collision free.           *)
(***************************************************************************)
EXTENDS Integers, Sequences, FiniteSets, TLC

\* ------------------------------------------------------------------ bounds
MaxInserts == 2
MaxTicks == 3
MaxElapsed == 2
MaxRestarts == 1
RingPrefill == 49
SessionPrefill == 3

\* --------------------------------------------------------------- constants
WorkingCapacity == 50
ConversationWindow == 10
ContextMaxResults == 5
DefaultMaxResults == 10
Week == 7 * 24 * 3600
\* the clock is observed every 0.45 week, so that ages of 0.45, 0.9, 1.35, ...
\* weeks occur: before, at and after the floor of the recency factor
TickSeconds == (9 * Week) \div 20

\* ----------------------------------------------------------------- strings
UpperAlphabet ==
  <<"A","B","C","D","E","F","G","H","I","J","K","L","M",
    "N","O","P","Q","R","S","T","U","V","W","X","Y","Z">>

LowerAlphabet ==
  <<"a","b","c","d","e","f","g","h","i","j","k","l","m",
    "n","o","p","q","r","s","t","u","v","w","x","y","z">>

LowerOf ==
  [c \in { UpperAlphabet[i] : i \in 1..26 } |->
     LowerAlphabet[CHOOSE i \in 1..26 : UpperAlphabet[i] = c]]

LowerChar(c) == IF c \in DOMAIN LowerOf THEN LowerOf[c] ELSE c

\* str.lower()
Lower(s) == [i \in 1..Len(s) |-> LowerChar(s[i])]

\* q in s
IsSubstr(q, s) ==
  \E i \in 0..(Len(s) - Len(q)) : SubSeq(s, i + 1, i + Len(q)) = q

\* s.startswith(q)
StartsWith(s, q) == Len(q) <= Len(s) /\ SubSeq(s, 1, Len(q)) = q

S_python == <<"p","y","t","h","o","n">>
S_Python == <<"P","y","t","h","o","n">>
S_bug == <<"b","u","g">>
S_RecordA == <<"R","e","c","o","r","d"," ","A">>
S_RecordB == <<"R","e","c","o","r","d"," ","B">>
S_pythonTip == <<"p","y","t","h","o","n"," ","t","i","p">>
S_UsePython == <<"U","s","e"," ","P","y","t","h","o","n">>
S_deployApp == <<"d","e","p","l","o","y"," ","a","p","p">>
S_deploy == <<"d","e","p","l","o","y">>
S_appNotes == <<"a","p","p"," ","n","o","t","e","s">>
S_app == <<"a","p","p">>
S_unknown == <<"u","n","k","n","o","w","n">>
S_default == <<"d","e","f","a","u","l","t">>
S_empty == <<>>

\* ---------------------------------------------------------------- helpers
Max(a, b) == IF a >= b THEN a ELSE b
Min(a, b) == IF a <= b THEN a ELSE b

\* list[-n:]
LastN(s, n) == SubSeq(s, Max(1, Len(s) - n + 1), Len(s))

\* list[:n]
FirstN(s, n) == SubSeq(s, 1, Min(n, Len(s)))

RECURSIVE Flatten(_)
Flatten(ss) == IF ss = <<>> THEN <<>> ELSE Head(ss) \o Flatten(Tail(ss))

Range(s) == { s[i] : i \in 1..Len(s) }

MaxOfSet(S) == CHOOSE m \in S : \A n \in S : n <= m

EmptyFn == [x \in {} |-> 0]

\* dict: empty, lookup, membership, assignment
EmptyDict == <<>>
NoMeta == [k \in {} |-> S_empty]
HasKey(d, k) == \E i \in 1..Len(d) : d[i].key = k
Lookup(d, k) == d[CHOOSE i \in 1..Len(d) : d[i].key = k].value
Assign(d, k, v) ==
  IF HasKey(d, k)
  THEN [i \in 1..Len(d) |-> IF d[i].key = k THEN [key |-> k, value |-> v] ELSE d[i]]
  ELSE Append(d, [key |-> k, value |-> v])

\* metadata.get(key, default)
MetaGet(m, k, dflt) == IF k \in DOMAIN m THEN m[k] ELSE dflt

\* ------------------------------------------------------------------- state
VARIABLES
  working_memory,     \* deque(maxlen=50) of MemoryEntry
  semantic_memory,    \* dict, never written
  episodic_memory,    \* list of MemoryEntry
  procedural_memory,  \* dict skill_name -> MemoryEntry
  project_memory,     \* dict project_name -> list of MemoryEntry
  memories,           \* table memories: id -> row
  conn,               \* "open" or "closed"
  clock,              \* what time.time() returns
  result,             \* outcome of the last add_memory: [raised, id]
  inserted,           \* history: every add_memory call, [entry, saved]
  procStart,          \* history: Len(inserted) when this process started
  nAdds,              \* number of add_memory calls explored so far
  nRestarts,          \* number of restarts explored so far
  current_project_context, \* HybridMemorySystem.current_project_context
  project_contexts,   \* table project_contexts: project_name -> row
  project_updates,    \* history: every update_project_context call
  knowledge_graph,    \* MemoryEnhancer: tag -> node
  session_memories,   \* MemoryEnhancer: ids of the session's records
  conversation_session_id, \* MemoryEnhancer: int(time.time()) at start
  kg_file,            \* knowledge_graph.json: <<>> or <<snapshot>>
  embedding_model,    \* VectorMemorySystem: "none" or "loaded"
  similarity,         \* what the embedding model makes of a content: the
                      \* inner product of its vector with the query's, in tenths
  vector_index,       \* the FAISS index: the content embedded at each slot
  id_to_index_map,    \* VectorMemorySystem: id -> slot
  index_to_id_map,    \* VectorMemorySystem: slot -> id
  vector_files,       \* vectors.index + vector_mappings.pkl: <<>> or <<snapshot>>
  io_log,             \* history: the writes and releases of close() and the
                      \* files found unreadable at startup, in order
  system_class,       \* the class that was instantiated
  sweep_log,          \* history: the last cleanup_old_memories call
  state,              \* BaozongSuperAgent.state
  process_query,      \* the call of process_query in progress: where it stands
  response            \* what the last call of process_query came to

projectVars == <<current_project_context, project_contexts, project_updates>>

enhancerVars == <<knowledge_graph, session_memories, conversation_session_id,
                  kg_file>>

vectorVars == <<embedding_model, similarity, vector_index, id_to_index_map,
                index_to_id_map, vector_files>>

vars == <<working_memory, semantic_memory, episodic_memory, procedural_memory,
          project_memory, memories, conn, clock, result, inserted, procStart,
          nAdds, nRestarts, projectVars, enhancerVars, vectorVars, io_log,
          system_class, sweep_log, state, process_query, response>>

agentVars == <<state, process_query, response>>

tiers == <<working_memory, semantic_memory, episodic_memory, procedural_memory,
           project_memory>>

\* ------------------------------------------------------------------ inputs
Req(c, k, i, t, m) ==
  [content |-> c, memory_type |-> k, importance |-> i, tags |-> t, metadata |-> m]

Requests ==
  { Req(S_RecordA, "semantic", 9, <<S_python>>, NoMeta),
    Req(S_RecordB, "episodic", 3, <<S_python, S_bug>>, NoMeta),
    Req(S_pythonTip, "episodic", 5, <<>>, NoMeta),
    Req(S_UsePython, "working", 5, <<>>, NoMeta),
    Req(S_deployApp, "procedural", 6, <<>>, [k \in {"skill_name"} |-> S_deploy]),
    Req(S_pythonTip, "procedural", 4, <<>>, NoMeta),
    Req(S_appNotes, "project", 6, <<>>, [k \in {"project_name"} |-> S_app]) }

Queries == { S_Python, S_app, S_empty }

AllTypes == {"working", "semantic", "episodic", "procedural", "project"}

TypeFilters == { AllTypes, {"episodic", "procedural", "project"} }

Floors == { 0, 5 }

ResultCounts == { 1, DefaultMaxResults }

\* the two readings of time.time() in add_memory are d seconds apart; at the
\* one-second resolution of the model they are equal
ClockDrift == { 0 }

NoId == <<>>

\* ------------------------------------------------------------ add_memory
\* _generate_id(content + str(time.time()))
GenerateId(content, t) == <<content, t>>

\* MemoryEntry(...) as built by add_memory
NewEntry(r, t1, t2) ==
  [ id |-> GenerateId(r.content, t1),
    content |-> r.content,
    timestamp |-> t2,
    memory_type |-> r.memory_type,
    importance |-> r.importance,
    tags |-> r.tags,
    metadata |-> r.metadata ]

\* faulty variant: a full deque refuses the new record instead of dropping the oldest
DequeAppendKeepOldest(dq, e) ==
  IF Len(dq) >= WorkingCapacity THEN dq ELSE Append(dq, e)

\* deque(maxlen=50).append
DequeAppend(dq, e) == LastN(Append(dq, e), WorkingCapacity)

WorkingAfterAdd(e) ==
  IF e.memory_type = "working" THEN DequeAppend(working_memory, e)
  ELSE working_memory

EpisodicAfterAdd(e) ==
  IF e.memory_type = "episodic" THEN Append(episodic_memory, e)
  ELSE episodic_memory

\* faulty variant: a skill that is already indexed keeps its first record
ProceduralKeepFirst(e) ==
  IF e.memory_type = "procedural"
       /\ ~HasKey(procedural_memory, MetaGet(e.metadata, "skill_name", S_unknown))
  THEN Assign(procedural_memory, MetaGet(e.metadata, "skill_name", S_unknown), e)
  ELSE procedural_memory

ProceduralAfterAdd(e) ==
  IF e.memory_type = "procedural"
  THEN Assign(procedural_memory, MetaGet(e.metadata, "skill_name", S_unknown), e)
  ELSE procedural_memory

ProjectAfterAdd(e) ==
  IF e.memory_type = "project"
  THEN LET name == MetaGet(e.metadata, "project_name", S_default)
           old == IF HasKey(project_memory, name)
                  THEN Lookup(project_memory, name) ELSE <<>>
       IN Assign(project_memory, name, Append(old, e))
  ELSE project_memory

\* INSERT OR REPLACE INTO memories
SaveMemoryToDb(tbl, e) ==
  [ i \in (DOMAIN tbl) \cup {e.id} |-> IF i = e.id THEN e ELSE tbl[i] ]

\* add_memory on the fields of HybridMemorySystem
BaseAddMemory(r, d) ==
  LET e == NewEntry(r, clock, clock + d) IN
  /\ nAdds < MaxInserts
  /\ nAdds' = nAdds + 1
  /\ working_memory' = WorkingAfterAdd(e)
  /\ episodic_memory' = EpisodicAfterAdd(e)
  /\ procedural_memory' = ProceduralAfterAdd(e)
  /\ project_memory' = ProjectAfterAdd(e)
  /\ clock' = clock + d
  /\ IF conn = "open"
     THEN /\ memories' = SaveMemoryToDb(memories, e)
          /\ result' = [raised |-> FALSE, id |-> e.id]
     ELSE /\ memories' = memories
          /\ result' = [raised |-> TRUE, id |-> NoId]
  /\ inserted' = Append(inserted, [entry |-> e, saved |-> (conn = "open")])
  /\ UNCHANGED <<semantic_memory, conn, procStart, nRestarts>>

\* HybridMemorySystem.add_memory called on a plain store
AddMemory(r, d) ==
  /\ BaseAddMemory(r, d)
  /\ UNCHANGED <<projectVars, enhancerVars, vectorVars, io_log, system_class, sweep_log, agentVars>>

\* -------------------------------------------------- update_project_context
\* Python's None where a string is expected: a value no string equals
None == <<"None">>

\* Python's None where a dict is expected: a value no dict of strings equals
NoneDict == [k \in {"None"} |-> 0]

\* `tech_stack or "Python"` takes the default for None and ""
Falsy(x) == x = None \/ x = S_empty

\* `context_data or {}` takes the default for None and {}
FalsyDict(x) == x = NoneDict \/ DOMAIN x = {}

\* what an f-string makes of a value
PyStr(x) == IF x = None THEN <<"N","o","n","e">> ELSE x

\* json.dumps / json.loads of a dict of strings: a text that loads back
JsonDumps(d) == <<"json", d>>

JsonLoads(t) == t[2]

S_rust == <<"r","u","s","t">>
S_web == <<"w","e","b">>
S_context_update == <<"c","o","n","t","e","x","t","_","u","p","d","a","t","e">>
\* the words of the summary, written in pinyin
T_xiangmu_ == <<"x","i","a","n","g","m","u"," ">>
T_gengxin == <<" ","g","e","n","g","x","i","n",":"," ">>

ContextUpdateImportance == 8

ProjectNames == { S_app, S_web }

TechStacks == { None, S_empty, S_rust }

ContextDatas == { NoneDict, [k \in {"lang"} |-> S_rust] }

\* f"xiangmu {project_name} gengxin: {tech_stack}"
ContextSummary(name, tech) == T_xiangmu_ \o name \o T_gengxin \o PyStr(tech)

\* faulty variant: the synthetic record does not name its project
ProjectUpdateRequestUnnamed(name, tech) ==
  Req(ContextSummary(name, tech), "project", ContextUpdateImportance, <<>>,
      [k \in {"action"} |-> S_context_update])

\* the add_memory call of update_project_context
ProjectUpdateRequest(name, tech) ==
  Req(ContextSummary(name, tech), "project", ContextUpdateImportance, <<>>,
      [k \in {"project_name", "action"} |->
         IF k = "project_name" THEN name ELSE S_context_update])

\* INSERT OR REPLACE INTO project_contexts
SaveProjectContext(tbl, name, tech, data, now) ==
  [ n \in (DOMAIN tbl) \cup {name} |->
      IF n = name
      THEN [ project_name |-> name,
             tech_stack |-> tech,
             created_at |-> now,
             updated_at |-> now,
             context_data |-> JsonDumps(IF FalsyDict(data) THEN EmptyFn ELSE data) ]
      ELSE tbl[n] ]

\* update_project_context: the in-process context is set first; on a closed
\* connection conn.cursor() raises and nothing else happens
UpdateProjectContext(name, tech, data, d) ==
  /\ nAdds < MaxInserts
  /\ current_project_context' =
       [ project_name |-> name,
         tech_stack |-> IF Falsy(tech) THEN S_Python ELSE tech,
         updated_at |-> clock,
         context_data |-> IF FalsyDict(data) THEN EmptyFn ELSE data ]
  /\ project_updates' =
       Append(project_updates,
              [ project_name |-> name, tech_stack |-> tech, context_data |-> data,
                raised |-> (conn # "open") ])
  /\ IF conn = "open"
     THEN /\ project_contexts' = SaveProjectContext(project_contexts, name, tech,
                                                   data, clock)
          /\ BaseAddMemory(ProjectUpdateRequest(name, tech), d)
     ELSE /\ project_contexts' = project_contexts
          /\ nAdds' = nAdds + 1
          /\ UNCHANGED <<tiers, memories, conn, clock, result, inserted, procStart,
                         nRestarts>>
  /\ UNCHANGED <<enhancerVars, vectorVars, io_log, system_class, sweep_log, agentVars>>

\* ---------------------------------------------------------------- search
MatchesContent(q, e) == IsSubstr(Lower(q), Lower(e.content))

SearchWorkingMemory(q) ==
  LET Hit(e) == MatchesContent(q, e) IN SelectSeq(working_memory, Hit)

SearchEpisodicMemory(q) ==
  LET Hit(e) == MatchesContent(q, e) IN SelectSeq(episodic_memory, Hit)

SearchProceduralMemory(q) ==
  LET Hit(p) == IsSubstr(Lower(q), Lower(p.key)) \/ MatchesContent(q, p.value)
      hits == SelectSeq(procedural_memory, Hit)
  IN [i \in 1..Len(hits) |-> hits[i].value]

SearchProjectMemory(q) ==
  LET Hit(e) == MatchesContent(q, e)
      PerProject(p) ==
        IF IsSubstr(Lower(q), Lower(p.key)) THEN p.value ELSE SelectSeq(p.value, Hit)
  IN Flatten([i \in 1..Len(project_memory) |-> PerProject(project_memory[i])])

\* ----------------------------------------------------------------- score
\* match_score in tenths
MatchScore(q, e) ==
  LET ql == Lower(q)
      cl == Lower(e.content)
      tagHits == Cardinality({ i \in 1..Len(e.tags) : IsSubstr(ql, Lower(e.tags[i])) })
  IN (IF IsSubstr(ql, cl) THEN 10 + (IF StartsWith(cl, ql) THEN 5 ELSE 0) ELSE 0)
     + 3 * tagHits

\* faulty variant: the floor is 0.0 instead of 0.1
TimeFactorFloorZero(timeDiff) == Max(0, 10 * Week - 10 * timeDiff)

\* faulty variant: the linear decay alone, without a floor
TimeFactorNoFloor(timeDiff) == 10 * Week - 10 * timeDiff

\* max(0.1, 1.0 - time_diff / (7*24*3600)), times 10 * Week
TimeFactor(timeDiff) == Max(Week, 10 * Week - 10 * timeDiff)

\* match_score*0.6 + importance*0.3 + time_factor*0.1, times 100 * Week
FinalScore(q, e, now) ==
  6 * Week * MatchScore(q, e) + 3 * Week * e.importance
  + TimeFactor(now - e.timestamp)

\* list.sort(key=score, reverse=True): descending and stable
\* faulty variant: an unstable sort, equal scores end in reverse order
RECURSIVE InsertBeforeEqual(_, _)
InsertBeforeEqual(sorted, x) ==
  IF sorted = <<>> THEN <<x>>
  ELSE IF Head(sorted).score > x.score
       THEN <<Head(sorted)>> \o InsertBeforeEqual(Tail(sorted), x)
       ELSE <<x>> \o sorted

\* over (entry, final_score) pairs
RECURSIVE InsertByScore(_, _)
InsertByScore(sorted, x) ==
  IF sorted = <<>> THEN <<x>>
  ELSE IF Head(sorted).score >= x.score
       THEN <<Head(sorted)>> \o InsertByScore(Tail(sorted), x)
       ELSE <<x>> \o sorted

RECURSIVE SortByScore(_)
SortByScore(s) ==
  IF s = <<>> THEN <<>>
  ELSE InsertByScore(SortByScore(SubSeq(s, 1, Len(s) - 1)), s[Len(s)])

ScoreAndRankResults(q, results, now) ==
  SortByScore([i \in 1..Len(results) |->
                 [entry |-> results[i], score |-> FinalScore(q, results[i], now)]])

\* ---------------------------------------------------------- smart_recall
Candidates(q, types) ==
  (IF "working" \in types THEN SearchWorkingMemory(q) ELSE <<>>)
  \o (IF "episodic" \in types THEN SearchEpisodicMemory(q) ELSE <<>>)
  \o (IF "procedural" \in types THEN SearchProceduralMemory(q) ELSE <<>>)
  \o (IF "project" \in types THEN SearchProjectMemory(q) ELSE <<>>)

\* faulty variant: the comparison is the wrong way round
MeetsFloorInverted(e, minImportance) == e.importance <= minImportance

MeetsFloor(e, minImportance) == e.importance >= minImportance

\* faulty variant: [:max_results] first, the floor on what is left
CutThenFilter(scored, maxResults, minImportance) ==
  LET Keep(p) == MeetsFloor(p.entry, minImportance)
      cut == FirstN(scored, maxResults)
      filtered == SelectSeq(cut, Keep)
  IN [i \in 1..Len(filtered) |-> filtered[i].entry]

\* the floor on the ranked (entry, score) pairs, then [:max_results]
FilterAndCut(scored, maxResults, minImportance) ==
  LET Keep(p) == MeetsFloor(p.entry, minImportance)
      filtered == SelectSeq(scored, Keep)
  IN FirstN([i \in 1..Len(filtered) |-> filtered[i].entry], maxResults)

SmartRecall(q, types, maxResults, minImportance, now) ==
  FilterAndCut(ScoreAndRankResults(q, Candidates(q, types), now),
               maxResults, minImportance)

\* ------------------------------------------------- get_context_for_agent
NoQuery == <<"None">>

RecentMemories(query, now) ==
  IF query # NoQuery /\ query # S_empty
  THEN LET rel == SmartRecall(query, AllTypes, ContextMaxResults, 0, now)
       IN [i \in 1..Len(rel) |->
             [content |-> rel[i].content, type |-> rel[i].memory_type,
              importance |-> rel[i].importance, timestamp |-> rel[i].timestamp]]
  ELSE <<>>

\* faulty variant: with a query, the conversation is taken from the recalled records
ConversationFromRecall(query) ==
  LET recent == IF query # <<"None">> /\ query # S_empty
                THEN LastN(SearchWorkingMemory(query), ConversationWindow)
                ELSE FirstN(working_memory, ConversationWindow)
  IN [i \in 1..Len(recent) |->
        [content |-> recent[i].content, timestamp |-> recent[i].timestamp]]

ConversationHistory(query) ==
  LET recent == LastN(working_memory, ConversationWindow)
  IN [i \in 1..Len(recent) |->
        [content |-> recent[i].content, timestamp |-> recent[i].timestamp]]

GetContextForAgent(query, now) ==
  [ recent_memories |-> RecentMemories(query, now),
    relevant_skills |-> <<>>,
    conversation_history |-> ConversationHistory(query) ]

\* ------------------------------------------------------ _analyze_content
\* the ASCII words of the patterns of _analyze_content; the contents of the
\* model are ASCII, so the other alternatives of a pattern never match
W_ai == <<"a","i">>
W_artificial_intelligence == <<"a","r","t","i","f","i","c","i","a","l"," ","i","n","t","e","l","l","i","g","e","n","c","e">>
W_langchain == <<"l","a","n","g","c","h","a","i","n">>
W_agent == <<"a","g","e","n","t">>
W_memory == <<"m","e","m","o","r","y">>
W_project == <<"p","r","o","j","e","c","t">>
W_task == <<"t","a","s","k">>
W_development == <<"d","e","v","e","l","o","p","m","e","n","t">>
W_coding == <<"c","o","d","i","n","g">>
W_framework == <<"f","r","a","m","e","w","o","r","k">>
W_library == <<"l","i","b","r","a","r","y">>
W_critical == <<"c","r","i","t","i","c","a","l">>
W_important == <<"i","m","p","o","r","t","a","n","t">>
W_success == <<"s","u","c","c","e","s","s">>
W_error == <<"e","r","r","o","r">>
W_optimize == <<"o","p","t","i","m","i","z","e">>
W_study == <<"s","t","u","d","y">>
W_great == <<"g","r","e","a","t">>
W_good == <<"g","o","o","d">>
W_fail == <<"f","a","i","l">>
W_difficult == <<"d","i","f","f","i","c","u","l","t">>

\* the four tags of tech_patterns whose names are not ASCII (memory, project,
\* development, framework in Chinese), written in pinyin
T_jiyi == <<"j","i","y","i">>
T_xiangmu == <<"x","i","a","n","g","m","u">>
T_kaifa == <<"k","a","i","f","a">>
T_kuangjia == <<"k","u","a","n","g","j","i","a">>

S_pythonBug == <<"p","y","t","h","o","n"," ","b","u","g">>
S_importantAiTask == <<"i","m","p","o","r","t","a","n","t"," ","a","i"," ","t","a","s","k">>

\* \w of the regular expressions, for the characters the model uses
WordChar(c) == c \in Range(UpperAlphabet) \cup Range(LowerAlphabet)

\* re.search(r"\bw\b", s)
HasWord(w, s) ==
  \E i \in 0..(Len(s) - Len(w)) :
    /\ SubSeq(s, i + 1, i + Len(w)) = w
    /\ i = 0 \/ ~WordChar(s[i])
    /\ i + Len(w) = Len(s) \/ ~WordChar(s[i + Len(w) + 1])

\* tech_patterns, in dict order
TechPatterns ==
  << [tag |-> S_python, words |-> {S_python}],
     [tag |-> W_ai, words |-> {W_ai, W_artificial_intelligence}],
     [tag |-> W_langchain, words |-> {W_langchain}],
     [tag |-> W_agent, words |-> {W_agent}],
     [tag |-> T_jiyi, words |-> {W_memory}],
     [tag |-> T_xiangmu, words |-> {W_project, W_task}],
     [tag |-> T_kaifa, words |-> {W_development, W_coding}],
     [tag |-> T_kuangjia, words |-> {W_framework, W_library}] >>

\* importance_indicators, weights in tenths
ImportanceIndicators ==
  << [words |-> {W_critical, W_important}, weight |-> 3],
     [words |-> {W_success}, weight |-> 2],
     [words |-> {W_error, S_bug}, weight |-> 2],
     [words |-> {W_optimize}, weight |-> 1],
     [words |-> {W_study}, weight |-> 1] >>

PositiveWords == { W_great, W_good, W_success }

NegativeWords == { S_bug, W_error, W_fail, W_difficult }

RECURSIVE SumWeights(_, _)
SumWeights(inds, cl) ==
  IF inds = <<>> THEN 0
  ELSE (IF \E w \in Head(inds).words : HasWord(w, cl) THEN Head(inds).weight ELSE 0)
       + SumWeights(Tail(inds), cl)

AnalyzedTags(cl) ==
  LET Matches(p) == \E w \in p.words : HasWord(w, cl)
      hits == SelectSeq(TechPatterns, Matches)
  IN [i \in 1..Len(hits) |-> hits[i].tag]

AnalyzedImportance(cl) == Min(5 + SumWeights(ImportanceIndicators, cl), 10)

Sentiment(cl) ==
  LET pos == Cardinality({ w \in PositiveWords : IsSubstr(w, cl) })
      neg == Cardinality({ w \in NegativeWords : IsSubstr(w, cl) })
  IN IF pos > neg THEN "positive" ELSE IF neg > pos THEN "negative" ELSE "neutral"

\* _analyze_content(content): (tags, importance, metadata)
AnalyzeContent(content) ==
  LET cl == Lower(content) IN
  [ tags |-> AnalyzedTags(cl),
    importance |-> AnalyzedImportance(cl),
    metadata |-> [k \in {"sentiment"} |-> Sentiment(cl)] ]

\* -------------------------------------------------- cleanup_old_memories
DefaultDaysOld == 30

ImportanceFloor == 7

DaySeconds == 24 * 3600

\* the age limits that callers pass: about one observation of the clock, and
\* the default
SweepDays == { 3, DefaultDaysOld }

NoSweep == [days_old |-> 0, raised |-> FALSE, deleted |-> {}]

\* faulty variant: DELETE ... WHERE timestamp < ? OR importance < 0.7
SweptOldOrUnimportant(row, cutoff) ==
  row.timestamp < cutoff \/ row.importance < ImportanceFloor

\* DELETE FROM memories WHERE timestamp < ? AND importance < 0.7
Swept(row, cutoff) ==
  row.timestamp < cutoff /\ row.importance < ImportanceFloor

\* cleanup_old_memories(days_old): on a closed connection conn.cursor() raises;
\* the in-memory tiers are not touched
CleanupOldMemories(days_old) ==
  LET cutoff_time == clock - days_old * DaySeconds
      gone == { id \in DOMAIN memories : Swept(memories[id], cutoff_time) }
  IN /\ IF conn = "open"
        THEN /\ memories' = [ id \in (DOMAIN memories) \ gone |-> memories[id] ]
             /\ sweep_log' = [days_old |-> days_old, raised |-> FALSE,
                              deleted |-> gone]
        ELSE /\ memories' = memories
             /\ sweep_log' = [days_old |-> days_old, raised |-> TRUE,
                              deleted |-> {}]
     /\ UNCHANGED <<tiers, conn, clock, result, inserted, procStart, nAdds, nRestarts>>
     /\ UNCHANGED <<projectVars, enhancerVars, vectorVars, io_log, system_class,
                    agentVars>>

Sweep == \E days_old \in SweepDays : CleanupOldMemories(days_old)

\* ------------------------------------------------------ clock and lifecycle
\* time passes between two calls
Tick ==
  /\ clock \div TickSeconds < MaxTicks
  /\ clock' = clock + TickSeconds
  /\ UNCHANGED <<tiers, memories, conn, result, inserted, procStart, nAdds, nRestarts>>
  /\ UNCHANGED <<projectVars, enhancerVars, vectorVars, io_log, system_class, sweep_log, agentVars>>

\* close(): conn.close(); the in-memory tiers stay as they are
BaseClose ==
  /\ conn = "open"
  /\ conn' = "closed"
  /\ UNCHANGED <<tiers, memories, clock, result, inserted, procStart, nAdds, nRestarts>>
  /\ UNCHANGED projectVars

\* HybridMemorySystem.close called on a plain store
Close ==
  /\ BaseClose
  /\ UNCHANGED <<enhancerVars, vectorVars, io_log, system_class, sweep_log, agentVars>>

\* __init__ on the same memory_dir: connect, create tables if missing,
\* _init_memory_components
BaseReopen ==
  /\ conn = "closed"
  /\ nRestarts < MaxRestarts
  /\ nRestarts' = nRestarts + 1
  /\ conn' = "open"
  /\ working_memory' = <<>>
  /\ semantic_memory' = EmptyDict
  /\ episodic_memory' = <<>>
  /\ procedural_memory' = EmptyDict
  /\ project_memory' = EmptyDict
  /\ procStart' = Len(inserted)
  /\ result' = [raised |-> FALSE, id |-> NoId]
  /\ current_project_context' = EmptyFn
  /\ UNCHANGED <<memories, clock, inserted, nAdds, project_contexts,
                 project_updates>>

\* HybridMemorySystem(memory_dir) on the directory of a closed plain store
Reopen ==
  /\ BaseReopen
  /\ UNCHANGED <<enhancerVars, vectorVars, io_log, system_class, sweep_log, agentVars>>

Add == \E r \in Requests, d \in ClockDrift : AddMemory(r, d)

InitProject ==
  /\ current_project_context = EmptyFn
  /\ project_contexts = EmptyFn
  /\ project_updates = <<>>

InitEnhancer ==
  /\ knowledge_graph = [t \in {} |-> 0]
  /\ session_memories = <<>>
  /\ conversation_session_id = 0
  /\ kg_file = <<>>
  /\ io_log = <<>>

\* no call of process_query yet
NoResponse == [kind |-> "none", success |-> FALSE, message |-> S_empty]

NotRunning == [at |-> "returned", query |-> S_empty, message |-> S_empty,
               error |-> S_empty]

\* BaozongSuperAgent.__init__: self.state = AgentState.IDLE
InitAgent ==
  /\ state = "idle"
  /\ process_query = NotRunning
  /\ response = NoResponse

\* the fields of the subclasses and of the project context before any call
InitExtensions ==
  /\ InitProject
  /\ InitEnhancer
  /\ embedding_model = "none"
  /\ similarity = EmptyFn
  /\ vector_index = <<>>
  /\ id_to_index_map = [i \in {} |-> 0]
  /\ index_to_id_map = [i \in {} |-> 0]
  /\ vector_files = <<>>
  /\ sweep_log = NoSweep
  /\ InitAgent

\* the fields of HybridMemorySystem after __init__ on an empty directory
InitStore ==
  /\ working_memory = <<>>
  /\ semantic_memory = EmptyDict
  /\ episodic_memory = <<>>
  /\ procedural_memory = EmptyDict
  /\ project_memory = EmptyDict
  /\ memories = [i \in {} |-> 0]
  /\ conn = "open"
  /\ clock = 0
  /\ result = [raised |-> FALSE, id |-> NoId]
  /\ inserted = <<>>
  /\ procStart = 0
  /\ nAdds = 0
  /\ nRestarts = 0

Init ==
  /\ InitStore
  /\ InitExtensions
  /\ system_class = "HybridMemorySystem"

\* one process: inserts while time passes
Next == Add \/ Tick

Spec == Init /\ [][Next]_vars

\* the life cycle: inserts, close(), inserts on the closed store, restart
NextLife == Add \/ Close \/ Reopen

\* the project context: updates and inserts, close(), restart
UpdateContext ==
  \E name \in ProjectNames, tech \in TechStacks, data \in ContextDatas,
     d \in ClockDrift :
    UpdateProjectContext(name, tech, data, d)

NextProject == UpdateContext \/ Add \/ Close \/ Reopen

SpecProject == Init /\ [][NextProject]_vars

\* retention: inserts while time passes, sweeps, close()
NextSweep == Add \/ Tick \/ Sweep \/ Close

SpecSweep == Init /\ [][NextSweep]_vars

SpecLife == Init /\ [][NextLife]_vars

\* A process that has already stored RingPrefill working records, one per
\* second, so that the next inserts fill the deque and make it overflow.
RingRequest == Req(S_UsePython, "working", 5, <<>>, NoMeta)

RingEntry(i) == NewEntry(RingRequest, i - 1, i - 1)

InitRing ==
  /\ working_memory = [i \in 1..RingPrefill |-> RingEntry(i)]
  /\ semantic_memory = EmptyDict
  /\ episodic_memory = <<>>
  /\ procedural_memory = EmptyDict
  /\ project_memory = EmptyDict
  /\ memories = [id \in { RingEntry(i).id : i \in 1..RingPrefill } |->
                   RingEntry(id[2] + 1)]
  /\ conn = "open"
  /\ clock = RingPrefill
  /\ result = [raised |-> FALSE, id |-> RingEntry(RingPrefill).id]
  /\ inserted = [i \in 1..RingPrefill |-> [entry |-> RingEntry(i), saved |-> TRUE]]
  /\ procStart = 0
  /\ nAdds = 0
  /\ nRestarts = 0
  /\ InitExtensions
  /\ system_class = "HybridMemorySystem"

SpecRing == InitRing /\ [][Next]_vars


\* ---------------------------------------------------------- MemoryEnhancer
\* {**a, **b}
Merge(a, b) ==
  [k \in (DOMAIN a) \cup (DOMAIN b) |-> IF k \in DOMAIN b THEN b[k] ELSE a[k]]

\* the orders in which list(set(...)) may enumerate a set
Perms(S) == { p \in [1..Cardinality(S) -> S] : Range(p) = S }

\* node["related_tags"][t] += 1, starting from 0
Bump(rel, t) ==
  [x \in (DOMAIN rel) \cup {t} |->
     IF x = t THEN (IF t \in DOMAIN rel THEN rel[t] ELSE 0) + 1 ELSE rel[x]]

\* for other_tag in tags: if other_tag != tag: count it
RECURSIVE RelateAll(_, _, _)
RelateAll(rel, others, tag) ==
  IF others = <<>> THEN rel
  ELSE RelateAll(IF Head(others) # tag THEN Bump(rel, Head(others)) ELSE rel,
                 Tail(others), tag)

\* the keys of node["related_tags"] in the order of their insertion, which is
\* the order in which a dict enumerates them
RECURSIVE RelateKeys(_, _, _)
RelateKeys(keys, others, tag) ==
  IF others = <<>> THEN keys
  ELSE RelateKeys(IF Head(others) # tag /\ Head(others) \notin Range(keys)
                  THEN Append(keys, Head(others)) ELSE keys,
                  Tail(others), tag)

\* faulty variant: the inner loop only visits the tags after the current one
InnerTagsAfter(tags, i) == SubSeq(tags, i + 1, Len(tags))

\* the tags the inner loop visits while the outer loop is at position i
InnerTags(tags, i) == tags

\* one iteration of the outer loop of _update_knowledge_graph
VisitTag(kg, tags, i, now) ==
  LET tag == tags[i]
      node == IF tag \in DOMAIN kg THEN kg[tag]
              ELSE [count |-> 0, related_tags |-> EmptyFn, related_keys |-> <<>>,
                    first_seen |-> now, last_seen |-> now, importance |-> 0]
      updated == [count |-> node.count + 1,
                  related_tags |-> RelateAll(node.related_tags, InnerTags(tags, i), tag),
                  related_keys |-> RelateKeys(node.related_keys, InnerTags(tags, i), tag),
                  first_seen |-> node.first_seen,
                  last_seen |-> now,
                  importance |-> Min(10, node.importance + 1)]
  IN [t \in (DOMAIN kg) \cup {tag} |-> IF t = tag THEN updated ELSE kg[t]]

RECURSIVE VisitTags(_, _, _, _)
VisitTags(kg, tags, i, now) ==
  IF i > Len(tags) THEN kg
  ELSE VisitTags(VisitTag(kg, tags, i, now), tags, i + 1, now)

\* faulty variant: a node is also counted for a tag that the record does not
\* carry
UpdateKnowledgeGraphAndKind(kg, tags, now) ==
  VisitTags(kg, Append(tags, W_memory), 1, now)

UpdateKnowledgeGraph(kg, tags, now) == VisitTags(kg, tags, 1, now)

KnowledgeGraphSavePeriod == 5

\* a call of add_memory_with_analysis: the arguments of add_memory and auto_analyze
EnhancerRequests ==
  { [req |-> Req(S_pythonBug, "episodic", 3, <<S_python, S_python, S_bug>>, NoMeta),
     auto |-> FALSE],
    [req |-> Req(S_UsePython, "working", 5, <<S_bug>>, NoMeta), auto |-> TRUE],
    [req |-> Req(S_importantAiTask, "procedural", 2, <<>>, NoMeta), auto |-> TRUE],
    [req |-> Req(S_RecordA, "episodic", 15, <<>>, NoMeta), auto |-> TRUE],
    [req |-> Req(S_RecordB, "project", 0 - 2, <<S_bug, S_python>>, NoMeta),
     auto |-> FALSE],
    [req |-> Req(S_pythonTip, "episodic", 5, <<S_bug, W_ai, W_ai>>, NoMeta),
     auto |-> FALSE] }

\* final_tags: list(set(tags + analyzed_tags)) in any order, or tags as given
FinalTagChoices(q) ==
  IF q.auto
  THEN Perms(Range(q.req.tags) \cup Range(AnalyzeContent(q.req.content).tags))
  ELSE { q.req.tags }

AddMemoryWithAnalysis(q, finalTags, d) ==
  LET r == q.req
      a == AnalyzeContent(r.content)
      finalImportance == IF q.auto THEN Max(r.importance, a.importance)
                         ELSE r.importance
      merged == IF q.auto THEN Merge(r.metadata, a.metadata) ELSE r.metadata
      finalMetadata ==
        Merge(merged, [k \in {"session_id"} |-> conversation_session_id])
  IN /\ system_class = "MemoryEnhancer"
     /\ BaseAddMemory(Req(r.content, r.memory_type, finalImportance, finalTags,
                          finalMetadata), d)
     /\ IF conn = "open"
        THEN /\ knowledge_graph' =
                  IF finalTags # <<>>
                  THEN UpdateKnowledgeGraph(knowledge_graph, finalTags, clock + d)
                  ELSE knowledge_graph
             /\ kg_file' =
                  IF finalTags # <<>>
                     /\ Len(session_memories) % KnowledgeGraphSavePeriod = 0
                  THEN <<knowledge_graph'>> ELSE kg_file
             /\ session_memories' =
                  Append(session_memories, GenerateId(r.content, clock))
        ELSE UNCHANGED <<knowledge_graph, kg_file, session_memories>>
     /\ UNCHANGED <<conversation_session_id, projectVars, vectorVars, io_log,
                    system_class, sweep_log>>

AnalysedAdd ==
  \E q \in EnhancerRequests, d \in ClockDrift :
    \E ft \in FinalTagChoices(q) :
      AddMemoryWithAnalysis(q, ft, d) /\ UNCHANGED agentVars

\* faulty variant: the storage handle is released before the snapshot is written
EnhancerCloseReleaseFirst(written) ==
  <<"release">>
  \o <<IF written THEN "knowledge_graph" ELSE "knowledge_graph_failed">>
  \o (IF session_memories # <<>> THEN <<"session_summary">> ELSE <<>>)

\* the steps of MemoryEnhancer.close(), in order: _save_knowledge_graph()
\* (an error of the write is caught), the session summary, super().close()
EnhancerCloseSteps(written) ==
  <<IF written THEN "knowledge_graph" ELSE "knowledge_graph_failed">>
  \o (IF session_memories # <<>> THEN <<"session_summary">> ELSE <<>>)
  \o <<"release">>

\* MemoryEnhancer.close()
EnhancerClose ==
  /\ system_class = "MemoryEnhancer"
  /\ BaseClose
  /\ \E written \in BOOLEAN :
       /\ kg_file' = IF written THEN <<knowledge_graph>> ELSE kg_file
       /\ io_log' = io_log \o EnhancerCloseSteps(written)
  /\ UNCHANGED <<knowledge_graph, session_memories, conversation_session_id,
                 vectorVars, system_class, sweep_log, agentVars>>

\* MemoryEnhancer(memory_dir) on the directory of a closed store
EnhancerReopen ==
  /\ system_class = "MemoryEnhancer"
  /\ BaseReopen
  /\ session_memories' = <<>>
  /\ knowledge_graph' = IF kg_file # <<>> THEN kg_file[1] ELSE EmptyFn
  /\ conversation_session_id' = clock
  /\ UNCHANGED <<kg_file, vectorVars, io_log, system_class, sweep_log, agentVars>>

\* ------------------------------------------------- the query-time lookups
RelatedConceptsShown == 3

EnhancerQueries == { S_pythonBug, S_UsePython }

\* the nodes whose tag, lowercased, occurs in the lowercased query
RelevantTags(q) ==
  { t \in DOMAIN knowledge_graph : IsSubstr(Lower(t), Lower(q)) }

\* _get_knowledge_insights(query)["relevant_concepts"]:
\* list(node["related_tags"].keys())[:3]
GetKnowledgeInsights(q) ==
  [ t \in RelevantTags(q) |->
      [ frequency |-> knowledge_graph[t].count,
        importance |-> knowledge_graph[t].importance,
        related_concepts |->
          FirstN(knowledge_graph[t].related_keys, RelatedConceptsShown) ] ]

\* sorted(node["related_tags"].items(), key=count, reverse=True)[:3]
TopRelated(node) ==
  LET ranked == SortByScore([ i \in 1..Len(node.related_keys) |->
                   [ entry |-> node.related_keys[i],
                     score |-> node.related_tags[node.related_keys[i]] ] ])
  IN FirstN([ i \in 1..Len(ranked) |-> ranked[i].entry ], RelatedConceptsShown)

\* _suggest_tags_for_query(query): list(set(suggestions)), as a set
SuggestTagsForQuery(q) ==
  UNION { Range(TopRelated(knowledge_graph[t])) : t \in RelevantTags(q) }

NextEnhancer == AnalysedAdd \/ EnhancerClose \/ EnhancerReopen

InitEnhanced ==
  /\ InitStore
  /\ InitExtensions
  /\ system_class = "MemoryEnhancer"

SpecEnhancer == InitEnhanced /\ [][NextEnhancer]_vars

\* ------------------------------------------- BaozongSuperAgent.process_query
\* the texts of agent_core.py that are not ASCII, written in pinyin without
\* spaces (no word of _analyze_content occurs in them)
T_sikaochaxun == <<"s","i","k","a","o","c","h","a","x","u","n",":"," ">>
T_haoshi == <<".",".","."," ","(","h","a","o","s","h","i",":"," ","0",".","0","0","m","i","a","o",")">>
T_chulichaxun == <<"c","h","u","l","i","c","h","a","x","u","n",":"," ">>
T_chulichaxunshichucuo == <<"c","h","u","l","i","c","h","a","x","u","n","s","h","i","c","h","u","c","u","o",":"," ">>
T_woyilijie == <<"w","o","y","i","l","i","j","i","e","n","i","n","d","e","w","e","n","t","i",":">>
T_rangwo == <<".","r","a","n","g","w","o","w","e","i","n","i","n","t","i","g","o","n","g","x","i","a","n","g","g","u","a","n","x","i","n","x","i",".">>
T_jiyunin == <<"\\","n","\\","n","j","i","y","u","n","i","n","z","h","i","q","i","a","n","d","e">>
T_tiaoxiangguan == <<"t","i","a","o","x","i","a","n","g","g","u","a","n","j","i","y","i",",">>
T_sikao == <<"s","i","k","a","o">>
T_tuili == <<"t","u","i","l","i">>
T_chaxun == <<"c","h","a","x","u","n">>
T_xiangying == <<"x","i","a","n","g","y","i","n","g">>
T_cuowu == <<"c","u","o","w","u">>
T_yichang == <<"y","i","c","h","a","n","g">>
S_arrow == <<" ","-",">"," ">>
S_dots == <<".",".",".">>

\* str(e) of the sqlite3.ProgrammingError an insert raises on a closed store
S_closedDatabase == <<"C","a","n","n","o","t"," ","o","p","e","r","a","t","e"," ","o","n"," ","a"," ","c","l","o","s","e","d"," ","d","a","t","a","b","a","s","e",".">>

\* str(e) of an exception of context retrieval, of response generation
S_contextFailure == <<"c","o","n","t","e","x","t"," ","r","e","t","r","i","e","v","a","l">>
S_generateFailure == <<"r","e","s","p","o","n","s","e"," ","g","e","n","e","r","a","t","i","o","n">>

\* the queries put to the agent; _analyze_query finds no type and no intent in
\* them, _generate_response no special case
AgentQueries == { S_pythonBug, S_UsePython }

\* the steps of think() before its insert that may raise
ThinkFailures == { "none", "context", "generate" }

ErrorText(failure) ==
  IF failure = "context" THEN S_contextFailure ELSE S_generateFailure

\* str(n) for the lengths of the list of recalled records
Digits == <<"1", "2", "3", "4", "5">>

\* _generate_response()["message"] on the path without the instant fixer, for
\* the approach direct_response
GenerateResponse(query, context) ==
  T_woyilijie \o query \o T_rangwo
  \o (IF context.recent_memories # <<>>
      THEN T_jiyunin \o <<Digits[Len(context.recent_memories)]>> \o T_tiaoxiangguan
      ELSE <<>>)

\* the record think() stores of the thinking process
ThinkRequest(query) ==
  [ req |-> Req(T_sikaochaxun \o FirstN(query, 50) \o T_haoshi, "procedural", 6,
                <<T_sikao, T_tuili>>,
                [k \in {"thinking_time", "steps_count", "confidence"} |->
                   IF k = "thinking_time" THEN 0
                   ELSE IF k = "steps_count" THEN 4 ELSE 8]),
    auto |-> TRUE ]

\* the record process_query stores of the query and its answer
QueryRequest(query, message) ==
  [ req |-> Req(T_chulichaxun \o query \o S_arrow \o FirstN(message, 100) \o S_dots,
                "interaction", 7, <<T_chaxun, T_xiangying>>,
                [k \in {"query", "confidence", "thinking_steps"} |->
                   IF k = "query" THEN query
                   ELSE IF k = "confidence" THEN <<"8">> ELSE <<"4">>]),
    auto |-> TRUE ]

\* error_msg, and the record the except clause stores of it
ErrorMsg(error) == T_chulichaxunshichucuo \o error

ErrorRequest(query, error) ==
  [ req |-> Req(ErrorMsg(error), "error", 9, <<T_cuowu, T_yichang>>,
                [k \in {"error", "query"} |->
                   IF k = "error" THEN error ELSE query]),
    auto |-> TRUE ]

\* process_query(query) up to the insert of think(): self.state = THINKING,
\* get_smart_context, _analyze_query, _plan_response_strategy,
\* _generate_response; an exception of one of them is caught by process_query
ProcessQueryThink ==
  \E query \in AgentQueries, failure \in ThinkFailures :
    /\ system_class = "MemoryEnhancer"
    /\ process_query.at = "returned"
    /\ nAdds < MaxInserts
    /\ state' = "thinking"
    /\ response' = NoResponse
    /\ process_query' =
         IF failure = "none"
         THEN [at |-> "think", query |-> query, error |-> S_empty,
               message |-> GenerateResponse(query, GetContextForAgent(query, clock))]
         ELSE [at |-> "except", query |-> query, error |-> ErrorText(failure),
               message |-> S_empty]
    /\ UNCHANGED <<tiers, memories, conn, clock, result, inserted, procStart,
                   nAdds, nRestarts, projectVars, enhancerVars, vectorVars,
                   io_log, system_class, sweep_log>>

\* the insert that ends think(), then self.state = IDLE; if the insert raises,
\* control passes to the except clause of process_query
ThinkRecord ==
  /\ process_query.at = "think"
  /\ \E d \in ClockDrift :
       \E ft \in FinalTagChoices(ThinkRequest(process_query.query)) :
         AddMemoryWithAnalysis(ThinkRequest(process_query.query), ft, d)
  /\ IF result'.raised
     THEN /\ state' = state
          /\ process_query' = [process_query EXCEPT !.at = "except",
                                                    !.error = S_closedDatabase]
     ELSE /\ state' = "idle"
          /\ process_query' = [process_query EXCEPT !.at = "record"]
  /\ response' = response

\* the rest of the try block: the response is built (strategy has no
\* next_actions, so no task is created), the query is recorded, the response
\* is returned
RecordQuery ==
  /\ process_query.at = "record"
  /\ \E d \in ClockDrift :
       LET q == QueryRequest(process_query.query, process_query.message) IN
       \E ft \in FinalTagChoices(q) : AddMemoryWithAnalysis(q, ft, d)
  /\ IF result'.raised
     THEN /\ process_query' = [process_query EXCEPT !.at = "except",
                                                    !.error = S_closedDatabase]
          /\ response' = response
     ELSE /\ process_query' = NotRunning
          /\ response' = [kind |-> "AgentResponse", success |-> TRUE,
                          message |-> process_query.message]
  /\ state' = state

\* the except clause: self.state = ERROR, the error is recorded, the failure
\* response is returned; an exception of the recording insert is not caught
HandleException ==
  /\ process_query.at = "except"
  /\ state' = "error"
  /\ \E d \in ClockDrift :
       LET q == ErrorRequest(process_query.query, process_query.error) IN
       \E ft \in FinalTagChoices(q) : AddMemoryWithAnalysis(q, ft, d)
  /\ response' =
       IF result'.raised
       THEN [kind |-> "exception", success |-> FALSE, message |-> S_closedDatabase]
       ELSE [kind |-> "AgentResponse", success |-> FALSE,
             message |-> ErrorMsg(process_query.error)]
  /\ process_query' = NotRunning

\* shutdown(): the performance history is written, then memory_system.close()
Shutdown ==
  /\ process_query.at = "returned"
  /\ EnhancerClose

NextAgent ==
  ProcessQueryThink \/ ThinkRecord \/ RecordQuery \/ HandleException \/ Shutdown

SpecAgent == InitEnhanced /\ [][NextAgent]_vars

\* the graph and the retention sweep on one memory_dir: inserts of a record
\* below and of a record above the importance floor of the sweep while time
\* passes, sweeps of the table, close(), restart
RetentionRequests ==
  { [req |-> Req(S_RecordB, "project", 3, <<S_bug, S_python>>, NoMeta),
     auto |-> FALSE],
    [req |-> Req(S_UsePython, "working", 9, <<>>, NoMeta), auto |-> TRUE] }

RetentionAdd ==
  \E q \in RetentionRequests, d \in ClockDrift :
    \E ft \in FinalTagChoices(q) :
      AddMemoryWithAnalysis(q, ft, d) /\ UNCHANGED agentVars

NextGraphRetention ==
  RetentionAdd \/ Tick \/ Sweep \/ EnhancerClose

SpecGraphRetention == InitEnhanced /\ [][NextGraphRetention]_vars

\* A session that has already stored SessionPrefill working records through
\* add_memory_with_analysis, one per second, each tagged python: the next
\* inserts are the session's 5th and later ones.
SessionRequest ==
  Req(S_UsePython, "working", 5, <<S_python>>, [k \in {"session_id"} |-> 0])

SessionEntry(i) == NewEntry(SessionRequest, i - 1, i - 1)

\* the graph after the session's first k inserts
RECURSIVE GraphAfter(_)
GraphAfter(k) ==
  IF k = 0 THEN EmptyFn
  ELSE UpdateKnowledgeGraph(GraphAfter(k - 1), SessionRequest.tags, k - 1)

\* the last of the first k inserts that found len(session_memories) % 5 == 0
LastSavingInsert(k) ==
  KnowledgeGraphSavePeriod * ((k - 1) \div KnowledgeGraphSavePeriod) + 1

InitSession ==
  /\ working_memory = [i \in 1..SessionPrefill |-> SessionEntry(i)]
  /\ semantic_memory = EmptyDict
  /\ episodic_memory = <<>>
  /\ procedural_memory = EmptyDict
  /\ project_memory = EmptyDict
  /\ memories = [id \in { SessionEntry(i).id : i \in 1..SessionPrefill } |->
                   SessionEntry(id[2] + 1)]
  /\ conn = "open"
  /\ clock = SessionPrefill
  /\ result = [raised |-> FALSE, id |-> SessionEntry(SessionPrefill).id]
  /\ inserted = [i \in 1..SessionPrefill |-> [entry |-> SessionEntry(i), saved |-> TRUE]]
  /\ procStart = 0
  /\ nAdds = 0
  /\ nRestarts = 0
  /\ InitProject
  /\ knowledge_graph = GraphAfter(SessionPrefill)
  /\ session_memories = [i \in 1..SessionPrefill |-> SessionEntry(i).id]
  /\ conversation_session_id = 0
  /\ kg_file = <<GraphAfter(LastSavingInsert(SessionPrefill))>>
  /\ io_log = <<>>
  /\ embedding_model = "none"
  /\ similarity = EmptyFn
  /\ vector_index = <<>>
  /\ id_to_index_map = EmptyFn
  /\ index_to_id_map = EmptyFn
  /\ vector_files = <<>>
  /\ sweep_log = NoSweep
  /\ InitAgent
  /\ system_class = "MemoryEnhancer"

SpecSession == InitSession /\ [][NextEnhancer]_vars


\* ------------------------------------------------------ VectorMemorySystem
SimilarityThreshold == 7
SemanticWeight == 7
KeywordWeight == 3
VectorSavePeriod == 10

VectorRequests ==
  { Req(S_pythonTip, "episodic", 5, <<>>, NoMeta),
    Req(S_UsePython, "working", 8, <<>>, NoMeta),
    Req(S_RecordA, "semantic", 9, <<S_python>>, NoMeta) }

VectorContents == { r.content : r \in VectorRequests }

\* inner products the embedding model may give: below and above the threshold
SimilarityValues == { 6, 9 }

\* d[k] = v
SetAt(f, k, v) == [x \in (DOMAIN f) \cup {k} |-> IF x = k THEN v ELSE f[x]]

\* what _save_vector_index writes
VectorSnapshot(index, idToIndex, indexToId) ==
  <<[index |-> index, id_to_index |-> idToIndex, index_to_id |-> indexToId]>>

\* current_index = self.vector_index.ntotal
CurrentIndex == Len(vector_index)

\* _add_to_vector_index(entry_id, content)
AddToVectorIndex(id, content) ==
  /\ vector_index' = Append(vector_index, content)
  /\ id_to_index_map' = SetAt(id_to_index_map, id, CurrentIndex)
  /\ index_to_id_map' = SetAt(index_to_id_map, CurrentIndex, id)
  /\ vector_files' =
       IF Cardinality(DOMAIN id_to_index_map') % VectorSavePeriod = 0
       THEN VectorSnapshot(vector_index', id_to_index_map', index_to_id_map')
       ELSE vector_files

\* VectorMemorySystem.add_memory
VectorAddMemory(r, d) ==
  /\ system_class = "VectorMemorySystem"
  /\ BaseAddMemory(r, d)
  /\ IF conn = "open" /\ embedding_model = "loaded"
     THEN AddToVectorIndex(GenerateId(r.content, clock), r.content)
     ELSE UNCHANGED <<vector_index, id_to_index_map, index_to_id_map, vector_files>>
  /\ UNCHANGED <<embedding_model, similarity, projectVars, enhancerVars, io_log,
                 system_class, sweep_log, agentVars>>

VectorAdd == \E r \in VectorRequests, d \in ClockDrift : VectorAddMemory(r, d)

\* vector_index.search(query_embedding, k): the k slots of largest inner
\* product, largest first (slots of equal inner product in slot order)
FaissSearch(q, k) ==
  FirstN(SortByScore([i \in 1..Len(vector_index) |->
                        [entry |-> i - 1, score |-> similarity[vector_index[i]]]]), k)

\* _get_memory_by_id: the row of the memories table, as a MemoryEntry
GetMemoryById(id) == memories[id]

\* faulty variant: the similarity threshold is passed on as importance floor
SemanticFallbackWithFloor(q, maxResults, threshold, now) ==
  LET results == SmartRecall(q, AllTypes, maxResults, threshold, now)
  IN [i \in 1..Len(results) |-> [entry |-> results[i], score |-> 10]]

\* semantic_search without an embedding model: smart_recall, similarity 1.0
SemanticFallback(q, maxResults, threshold, now) ==
  LET results == SmartRecall(q, AllTypes, maxResults, 0, now)
  IN [i \in 1..Len(results) |-> [entry |-> results[i], score |-> 10]]

\* semantic_search(query, max_results, similarity_threshold): (entry, similarity)
SemanticSearch(q, maxResults, threshold, now) ==
  IF embedding_model = "none" THEN SemanticFallback(q, maxResults, threshold, now)
  ELSE IF conn # "open" THEN <<>>
  ELSE LET found == FaissSearch(q, maxResults * 2)
           Usable(h) == /\ h.score >= threshold
                        /\ h.entry \in DOMAIN index_to_id_map
                        /\ index_to_id_map[h.entry] \in DOMAIN memories
           hits == SelectSeq(found, Usable)
           results == [i \in 1..Len(hits) |->
                         [entry |-> GetMemoryById(index_to_id_map[hits[i].entry]),
                          score |-> hits[i].score]]
       IN FirstN(SortByScore(results), maxResults)

\* {entry.id: ... for entry in list}: the last element with this id
LastWithId(pairs, id) ==
  pairs[MaxOfSet({ i \in 1..Len(pairs) : pairs[i].entry.id = id })]

\* faulty variant: a keyword hit counts 0.5 instead of 1.0
KeywordScoreByRank(id, keywordIds) == IF id \in keywordIds THEN 5 ELSE 0

\* keyword_score = 1.0 if entry_id in keyword_dict else 0.0
KeywordScore(id, keywordIds) == IF id \in keywordIds THEN 10 ELSE 0

\* the merge, the sort and the cut of hybrid_search on its two result lists;
\* order is the order in which the set all_ids is enumerated; scores in
\* hundredths
HybridCombine(semantic, recalled, maxResults, order) ==
  LET keyword == [i \in 1..Len(recalled) |-> [entry |-> recalled[i], score |-> 10]]
      semanticIds == { semantic[i].entry.id : i \in 1..Len(semantic) }
      keywordIds == { recalled[i].id : i \in 1..Len(recalled) }
      Combined(id) ==
        [ entry |-> IF id \in semanticIds THEN LastWithId(semantic, id).entry
                    ELSE LastWithId(keyword, id).entry,
          score |-> (IF id \in semanticIds THEN LastWithId(semantic, id).score ELSE 0)
                      * SemanticWeight
                    + KeywordScore(id, keywordIds) * KeywordWeight ]
  IN FirstN(SortByScore([i \in 1..Len(order) |-> Combined(order[i])]), maxResults)

\* hybrid_search(query, max_results)
HybridSearch(q, maxResults, order, now) ==
  HybridCombine(SemanticSearch(q, maxResults * 2, SimilarityThreshold, now),
                SmartRecall(q, AllTypes, maxResults * 2, 0, now),
                maxResults, order)

\* the orders in which all_ids may be enumerated
HybridOrders(q, maxResults, now) ==
  LET semantic == SemanticSearch(q, maxResults * 2, SimilarityThreshold, now)
      recalled == SmartRecall(q, AllTypes, maxResults * 2, 0, now)
  IN Perms({ semantic[i].entry.id : i \in 1..Len(semantic) }
           \cup { recalled[i].id : i \in 1..Len(recalled) })

\* the steps of VectorMemorySystem.close(), in order: _save_vector_index()
\* (nothing without an embedding model; an error of the write is caught),
\* super().close()
VectorCloseSteps(written) ==
  (IF embedding_model = "loaded"
   THEN <<IF written THEN "vector_index" ELSE "vector_index_failed">> ELSE <<>>)
  \o <<"release">>

\* VectorMemorySystem.close()
VectorClose ==
  /\ system_class = "VectorMemorySystem"
  /\ BaseClose
  /\ \E written \in BOOLEAN :
       /\ vector_files' =
            IF embedding_model = "loaded" /\ written
            THEN VectorSnapshot(vector_index, id_to_index_map, index_to_id_map)
            ELSE vector_files
       /\ io_log' = io_log \o VectorCloseSteps(written)
  /\ UNCHANGED <<embedding_model, similarity, vector_index, id_to_index_map,
                 index_to_id_map, enhancerVars, system_class, sweep_log, agentVars>>

\* what reading the two files at startup can come to
LoadOutcomes == { "read", "index_unreadable", "mappings_unreadable" }

\* _load_existing_vectors on a fresh index and fresh maps: faiss.read_index
\* replaces the index, then pickle.load replaces the maps; an exception of
\* either is caught and leaves what was assigned before it
LoadExistingVectors(files, outcome) ==
  [ index |-> IF outcome = "index_unreadable" THEN <<>> ELSE files.index,
    id_to_index |-> IF outcome = "read" THEN files.id_to_index ELSE EmptyFn,
    index_to_id |-> IF outcome = "read" THEN files.index_to_id ELSE EmptyFn ]

\* VectorMemorySystem(memory_dir) on the directory of a closed store
VectorReopen ==
  /\ system_class = "VectorMemorySystem"
  /\ BaseReopen
  /\ IF embedding_model = "loaded" /\ vector_files # <<>>
     THEN \E outcome \in LoadOutcomes :
            LET got == LoadExistingVectors(vector_files[1], outcome) IN
            /\ vector_index' = got.index
            /\ id_to_index_map' = got.id_to_index
            /\ index_to_id_map' = got.index_to_id
            /\ io_log' = IF outcome = "read" THEN io_log
                         ELSE Append(io_log, outcome)
     ELSE /\ vector_index' = <<>>
          /\ id_to_index_map' = EmptyFn
          /\ index_to_id_map' = EmptyFn
          /\ io_log' = io_log
  /\ UNCHANGED <<embedding_model, similarity, vector_files, enhancerVars,
                 system_class, sweep_log, agentVars>>

\* a store with or without the embedding backend; with it, the embedding model
\* is some function of the content
InitVector ==
  /\ InitStore
  /\ InitProject
  /\ InitEnhancer
  /\ \/ /\ embedding_model = "none"
        /\ similarity = EmptyFn
     \/ /\ embedding_model = "loaded"
        /\ similarity \in [VectorContents -> SimilarityValues]
  /\ vector_index = <<>>
  /\ id_to_index_map = EmptyFn
  /\ index_to_id_map = EmptyFn
  /\ vector_files = <<>>
  /\ system_class = "VectorMemorySystem"
  /\ sweep_log = NoSweep
  /\ InitAgent

\* one process: inserts while time passes
NextVector == VectorAdd \/ Tick

SpecVector == InitVector /\ [][NextVector]_vars

\* the life cycle: inserts, close(), inserts on the closed store, restart
NextVectorLife == VectorAdd \/ VectorClose \/ VectorReopen

SpecVectorLife == InitVector /\ [][NextVectorLife]_vars

\* shutdown of either subclass: the store is a MemoryEnhancer or a
\* VectorMemorySystem, and lives through inserts, close() and restart
InitShutdown == InitEnhanced \/ InitVector

NextShutdown == NextEnhancer \/ NextVectorLife

SpecShutdown == InitShutdown /\ [][NextShutdown]_vars


\* ------------------------------------------------- vocabulary of the claims
\* the add_memory calls of the running process, oldest first
ProcessHistory == SubSeq(inserted, procStart + 1, Len(inserted))

IsWorkingCall(h) == h.entry.memory_type = "working"

\* the working records of the running process, in insertion order
WorkingHistory ==
  LET calls == SelectSeq(ProcessHistory, IsWorkingCall)
  IN [i \in 1..Len(calls) |-> calls[i].entry]

SkillOf(e) == MetaGet(e.metadata, "skill_name", S_unknown)

SkillNames == { S_deploy, S_unknown, S_python }

IsPrefix(a, b) == Len(a) <= Len(b) /\ SubSeq(b, 1, Len(a)) = a

NonWorking == {"episodic", "procedural", "project"}

\* every record a tier holds
TierMembers(kind) ==
  CASE kind = "working" -> Range(working_memory)
    [] kind = "semantic" -> { semantic_memory[i].value : i \in 1..Len(semantic_memory) }
    [] kind = "episodic" -> Range(episodic_memory)
    [] kind = "procedural" -> { procedural_memory[i].value : i \in 1..Len(procedural_memory) }
    [] kind = "project" ->
         UNION { Range(project_memory[i].value) : i \in 1..Len(project_memory) }
    [] OTHER -> {}

\* ---------------------------------------------------------------------- C1
\* C1: for every reachable store, query, tier filter, result count and floor
\* x, no record returned by smart_recall(query, min_importance=x) has
\* importance < x.
C1_FloorRespected ==
  \A q \in Queries, ts \in TypeFilters :
    LET ranked == ScoreAndRankResults(q, Candidates(q, ts), clock) IN
    \A n \in ResultCounts, x \in Floors :
      \A e \in Range(FilterAndCut(ranked, n, x)) : e.importance >= x

\* a recall in which the floor removed a matching record and kept another
C1_Witness ==
  \E q \in Queries, x \in Floors :
    /\ Len(SmartRecall(q, AllTypes, DefaultMaxResults, x, clock)) >= 1
    /\ Len(SmartRecall(q, AllTypes, DefaultMaxResults, 0, clock))
         > Len(SmartRecall(q, AllTypes, DefaultMaxResults, x, clock))

\* ---------------------------------------------------------------------- C2
IsCallOf(h, r) ==
  /\ h.saved
  /\ h.entry.content = r.content
  /\ h.entry.memory_type = r.memory_type
  /\ h.entry.importance = r.importance
  /\ h.entry.tags = r.tags

ScenarioC2 ==
  /\ procStart = 0
  /\ Len(inserted) = 2
  /\ IsCallOf(inserted[1], Req(S_RecordA, "semantic", 9, <<S_python>>, NoMeta))
  /\ IsCallOf(inserted[2], Req(S_RecordB, "episodic", 3, <<S_python, S_bug>>, NoMeta))

\* C2: from an empty store, after add_memory("Record A", semantic, 0.9,
\* ["python"]) and add_memory("Record B", episodic, 0.3, ["python","bug"]),
\* smart_recall("python", min_importance=0.5) is exactly [Record A].
C2_ScenarioReturnsRecordA ==
  ScenarioC2 =>
    SmartRecall(S_python, AllTypes, DefaultMaxResults, 5, clock)
      = <<inserted[1].entry>>

\* ---------------------------------------------------------------------- C3
\* C3: the working tier never holds more than 50 records; it holds exactly
\* the most recent min(n, 50) of the n working records of the process, in
\* insertion order; and every working record that overflow dropped from it
\* (and whose durable write succeeded) still has its row in the memories table.
C3_WorkingRing ==
  /\ Len(working_memory) <= 50
  /\ Len(working_memory) = Min(Len(WorkingHistory), 50)
  /\ working_memory = LastN(WorkingHistory, 50)
  /\ \A i \in 1..Len(ProcessHistory) :
       LET h == ProcessHistory[i] IN
       (IsWorkingCall(h) /\ h.saved /\ h.entry \notin Range(working_memory)) =>
         /\ h.entry.id \in DOMAIN memories
         /\ memories[h.entry.id].content = h.entry.content

\* the deque has overflowed: a stored working record is no longer in it
C3_Witness ==
  /\ Len(WorkingHistory) > 50
  /\ Len(working_memory) = 50
  /\ \E i \in 1..Len(ProcessHistory) :
       /\ IsWorkingCall(ProcessHistory[i])
       /\ ProcessHistory[i].saved
       /\ ProcessHistory[i].entry \notin Range(working_memory)
       /\ ProcessHistory[i].entry.id \in DOMAIN memories

\* ---------------------------------------------------------------------- C4
ConversationView(es) ==
  [i \in 1..Len(es) |-> [content |-> es[i].content, timestamp |-> es[i].timestamp]]

\* C4: for every query, and for no query, get_context_for_agent returns as
\* conversation_history the last min(10, size of the working tier) working
\* records in insertion order and nothing else; the query does not change it.
C4_RecentConversation ==
  \A q \in Queries \cup {NoQuery} :
    LET hist == ConversationHistory(q) IN
    /\ Len(hist) = Min(10, Len(working_memory))
    /\ hist = ConversationView(LastN(WorkingHistory, 10))

\* after a further working insert more than 10 working records are held, and
\* a query recalls some of them
C4_Witness ==
  /\ nAdds >= 1
  /\ IsWorkingCall(inserted[Len(inserted)])
  /\ Len(working_memory) > 10
  /\ Len(RecentMemories(S_python, clock)) >= 1
  /\ Len(ConversationHistory(S_python)) = 10

\* ---------------------------------------------------------------------- C5
AllSaved == \A i \in 1..Len(ProcessHistory) : ProcessHistory[i].saved

\* C5: after N inserts, close() and a reopen on the same memory_dir, recall of
\* a fixed query over episodic, procedural and project returns the same
\* ordered list as immediately before close().
C5_RoundTrip ==
  [][ (conn = "closed" /\ conn' = "open" /\ AllSaved) =>
        \A q \in Queries :
          SmartRecall(q, NonWorking, DefaultMaxResults, 0, clock)'
            = SmartRecall(q, NonWorking, DefaultMaxResults, 0, clock) ]_vars


\* ---------------------------------------------------------------------- C6
\* C6: after every successful insert, whatever kind the caller passed, the
\* inserted record is in exactly one of the five tier partitions, the one
\* named by its kind.
C6_ExactlyOneTier ==
  (Len(ProcessHistory) > 0 /\ ProcessHistory[Len(ProcessHistory)].saved) =>
    LET e == ProcessHistory[Len(ProcessHistory)].entry
    IN { k \in AllTypes : e \in TierMembers(k) } = { e.memory_type }

\* ---------------------------------------------------------------------- C7
ProceduralCalls(hist, s) ==
  { i \in 1..Len(hist) :
      hist[i].entry.memory_type = "procedural" /\ SkillOf(hist[i].entry) = s }

MaxOf(S) == CHOOSE m \in S : \A n \in S : n <= m

LastCall == ProcessHistory[Len(ProcessHistory)]

VisibleInProcess(e) ==
  /\ e \in TierMembers(e.memory_type)
  /\ e \in Range(SmartRecall(e.content, AllTypes, DefaultMaxResults, 0, clock))

\* C8: when the durable write of an insert fails, the failure is reported to
\* the caller and the record is nevertheless in its in-memory tier and is
\* returned by a later matching recall of the same process.
C8_FailedInsertStaysVisible ==
  (Len(ProcessHistory) > 0 /\ ~LastCall.saved) =>
    /\ result.raised
    /\ VisibleInProcess(LastCall.entry)

\* what does hold: the failure is reported, and a record of one of the four
\* kinds add_memory indexes stays in its tier and is recalled
C8_IndexedKindsStayVisible ==
  (Len(ProcessHistory) > 0 /\ ~LastCall.saved) =>
    /\ result.raised
    /\ LastCall.entry.memory_type \in {"working", "episodic", "procedural", "project"}
         => VisibleInProcess(LastCall.entry)

\* ---------------------------------------------------------------------- C9
\* the original statement of C9: the list returned by smart_recall is in
\* descending order of final score, and of two returned records with equal
\* final score the one with the larger timestamp comes first.
C9_TiesNewestFirst ==
  \A q \in Queries, ts \in TypeFilters :
    LET c == Candidates(q, ts)
        ranked == ScoreAndRankResults(q, c, clock)
        score == [e \in Range(c) |-> FinalScore(q, e, clock)]
    IN \A n \in ResultCounts, x \in Floors :
         LET r == FilterAndCut(ranked, n, x) IN
         \A i, j \in 1..Len(r) :
           i < j =>
             \/ score[r[i]] > score[r[j]]
             \/ /\ score[r[i]] = score[r[j]]
                /\ r[i].timestamp >= r[j].timestamp

\* C9 as amended: the list returned by smart_recall is in descending order of
\* final score, and returned records with equal final score appear in the
\* order in which the tier scan produced them (working, episodic, procedural,
\* project; stored order within a tier), whatever their timestamps.
C9_TiesInScanOrder ==
  \A q \in Queries, ts \in TypeFilters :
    LET c == Candidates(q, ts)
        ranked == ScoreAndRankResults(q, c, clock)
        score == [e \in Range(c) |-> FinalScore(q, e, clock)]
    IN \A n \in ResultCounts, x \in Floors :
         LET r == FilterAndCut(ranked, n, x) IN
         /\ \A i \in 1..(Len(r) - 1) : score[r[i]] >= score[r[i + 1]]
         /\ \A v \in { score[r[k]] : k \in 1..Len(r) } :
              LET SameScore(e) == score[e] = v
                  Eligible(e) == score[e] = v /\ e.importance >= x
              IN IsPrefix(SelectSeq(r, SameScore), SelectSeq(c, Eligible))

\* two returned records tie and the older one comes first
C9_Witness ==
  \E q \in Queries :
    LET r == SmartRecall(q, AllTypes, DefaultMaxResults, 0, clock) IN
    \E i \in 1..(Len(r) - 1) :
      /\ FinalScore(q, r[i], clock) = FinalScore(q, r[i + 1], clock)
      /\ r[i].timestamp < r[i + 1].timestamp

\* --------------------------------------------------------------------- C10
\* the times of a second call: the store is left as it is and the clock has
\* advanced by 1..MaxElapsed observation periods
LaterTimes == { clock + k * TickSeconds : k \in 1..MaxElapsed }

\* smart_recall(q, ts, n, x) returns at every later time what it returns now
SameRecallLater ==
  \A q \in Queries, ts \in TypeFilters :
    LET c == Candidates(q, ts)
        first == ScoreAndRankResults(q, c, clock)
    IN \A later \in LaterTimes :
         LET second == ScoreAndRankResults(q, c, later) IN
         \A n \in ResultCounts, x \in Floors :
           FilterAndCut(second, n, x) = FilterAndCut(first, n, x)

\* the original statement of C10: with the store unchanged, a second recall
\* with the same query and parameters returns the same ordered list as the
\* first, whatever time has passed between the two calls.
C10_TimeIndependent == SameRecallLater

AllRecords == UNION { TierMembers(k) : k \in AllTypes }

\* every stored record is at least 0.9 week old
AllAtFloor == \A e \in AllRecords : 10 * (clock - e.timestamp) >= 9 * Week

\* C10 as amended: with the store unchanged, a second recall with the same
\* query and parameters returns the same ordered list as the first whatever
\* time has passed, provided every stored record was at least 0.9 week old
\* (its recency factor at the 0.1 floor) at the first call.
C10_StableOnceAtFloor ==
  AllAtFloor => SameRecallLater

\* records of different age are recalled together, all at least 0.9 week old
C10_Witness ==
  /\ AllAtFloor
  /\ \E q \in Queries :
       LET r == SmartRecall(q, AllTypes, DefaultMaxResults, 0, clock) IN
       \E i, j \in 1..Len(r) : r[i].timestamp # r[j].timestamp

\* --------------------------------------------------------------------- C11
RelatedCount(a, b) ==
  IF a \in DOMAIN knowledge_graph /\ b \in DOMAIN knowledge_graph[a].related_tags
  THEN knowledge_graph[a].related_tags[b] ELSE 0

KnownTags ==
  (DOMAIN knowledge_graph)
  \cup UNION { DOMAIN knowledge_graph[a].related_tags : a \in DOMAIN knowledge_graph }

\* C11: after every insert through add_memory_with_analysis (any tag list,
\* repeated tags included, with or without auto-analysis), for all tags A and
\* B the co-occurrence count stored under A for B equals the count stored
\* under B for A.
C11_GraphSymmetric ==
  \A a, b \in KnownTags : RelatedCount(a, b) = RelatedCount(b, a)

\* a single insert with a repeated tag has counted a pair twice, and an insert
\* with auto-analysis has added a tag to the graph
C11_Witness ==
  /\ \E a, b \in KnownTags : a # b /\ RelatedCount(a, b) >= 2
  /\ Len(ProcessHistory) >= 2
  /\ \E i \in 1..Len(ProcessHistory) :
       "sentiment" \in DOMAIN ProcessHistory[i].entry.metadata

\* --------------------------------------------------------------------- C12
IdsOf(entries) == { entries[i].id : i \in 1..Len(entries) }

\* C12: when the embedding backend is absent, for every store state and
\* query, semantic_search(query) returns the same set of record ids as
\* smart_recall(query) with default parameters, each paired with similarity 1.0.
C12_FallbackIsRecall ==
  embedding_model = "none" =>
    \A q \in Queries :
      LET found == SemanticSearch(q, DefaultMaxResults, SimilarityThreshold, clock)
          recalled == SmartRecall(q, AllTypes, DefaultMaxResults, 0, clock)
      IN /\ { found[i].entry.id : i \in 1..Len(found) } = IdsOf(recalled)
         /\ \A i \in 1..Len(found) : found[i].score = 10

\* without the backend, a search finds a record whose importance is below the
\* similarity threshold
C12_Witness ==
  /\ embedding_model = "none"
  /\ \E q \in Queries :
       LET found == SemanticSearch(q, DefaultMaxResults, SimilarityThreshold, clock)
       IN \E i \in 1..Len(found) : found[i].entry.importance < SimilarityThreshold

\* --------------------------------------------------------------------- C13
HybridCounts == { 1, 2 }

\* the two result sets hybrid_search(query, n) combines
SemanticSet(q, n) == SemanticSearch(q, n * 2, SimilarityThreshold, clock)

LexicalSet(q, n) == SmartRecall(q, AllTypes, n * 2, 0, clock)

SemanticIds(q, n) == { SemanticSet(q, n)[i].entry.id : i \in 1..Len(SemanticSet(q, n)) }

\* 0.7 * semanticScore + 0.3 * keywordHitIndicator of every id of the union of
\* the two lists, in hundredths
ExpectedHybridScores(sem, lex) ==
  LET semIds == { sem[i].entry.id : i \in 1..Len(sem) } IN
  [ id \in semIds \cup IdsOf(lex) |->
      7 * (IF id \in semIds
           THEN (CHOOSE p \in Range(sem) : p.entry.id = id).score ELSE 0)
      + 3 * (IF id \in IdsOf(lex) THEN 10 ELSE 0) ]

\* C13: hybrid_search(query, n) returns at most n entries, one per distinct id
\* of the union of the semantic and the lexical result set, each scored
\* semantic_weight * semanticScore + keyword_weight * h (h = 1.0 if the id is
\* in the lexical set, else 0.0; semanticScore 0.0 if the id is not in the
\* semantic set), in non-increasing score order, and no omitted member of the
\* union has a strictly higher score than a returned one.
C13_HybridRanking ==
  \A q \in Queries, n \in HybridCounts :
    LET sem == SemanticSet(q, n)
        lex == LexicalSet(q, n)
        expected == ExpectedHybridScores(sem, lex)
        union == DOMAIN expected
    IN \A order \in Perms(union) :
         LET out == HybridCombine(sem, lex, n, order)
             outIds == { out[i].entry.id : i \in 1..Len(out) }
         IN /\ Len(out) = Min(n, Cardinality(union))
            /\ Cardinality(outIds) = Len(out)
            /\ outIds \subseteq union
            /\ \A i \in 1..Len(out) : out[i].score = expected[out[i].entry.id]
            /\ \A i \in 1..(Len(out) - 1) : out[i].score >= out[i + 1].score
            /\ \A id \in union \ outIds, i \in 1..Len(out) :
                 expected[id] <= out[i].score

\* with the backend, one record is found by meaning only and another by
\* keyword only, and the result count cuts the union
C13_Witness ==
  /\ embedding_model = "loaded"
  /\ \E q \in Queries :
       LET union == SemanticIds(q, 1) \cup IdsOf(LexicalSet(q, 1)) IN
       /\ SemanticIds(q, 1) \ IdsOf(LexicalSet(q, 1)) # {}
       /\ IdsOf(LexicalSet(q, 1)) \ SemanticIds(q, 1) # {}
       /\ \E order \in HybridOrders(q, 1, clock) :
            Len(HybridSearch(q, 1, order, clock)) < Cardinality(union)

\* --------------------------------------------------------------------- C14
MutualInverses ==
  /\ \A id \in DOMAIN id_to_index_map :
       /\ id_to_index_map[id] \in DOMAIN index_to_id_map
       /\ index_to_id_map[id_to_index_map[id]] = id
  /\ \A slot \in DOMAIN index_to_id_map :
       /\ index_to_id_map[slot] \in DOMAIN id_to_index_map
       /\ id_to_index_map[index_to_id_map[slot]] = slot

\* C14: with the embedding backend active, after any sequence of inserts the
\* slot-to-id and id-to-slot maps are mutual inverses, every insert takes a
\* slot number strictly greater than all slots assigned before it, and a slot
\* once assigned is never reassigned to another id.
C14_SlotBijection ==
  [][ embedding_model = "loaded" =>
        /\ MutualInverses'
        /\ \A slot \in DOMAIN index_to_id_map :
             /\ slot \in DOMAIN index_to_id_map'
             /\ index_to_id_map'[slot] = index_to_id_map[slot]
        /\ \A new \in (DOMAIN index_to_id_map') \ (DOMAIN index_to_id_map) :
             \A slot \in DOMAIN index_to_id_map : new > slot ]_vars

\* --------------------------------------------------------------------- C17
\* C17: two insert calls never overwrite one another's durable row: after n
\* insert calls the memories table holds n rows with pairwise distinct ids,
\* the id of each row being a function of its content and its stored timestamp.
C17_NoOverwrite ==
  (procStart = 0 /\ AllSaved) =>
    /\ Cardinality(DOMAIN memories) = Len(inserted)
    /\ \A i, j \in 1..Len(inserted) :
         i # j => inserted[i].entry.id # inserted[j].entry.id
    /\ \A a, b \in DOMAIN memories :
         (memories[a].content = memories[b].content
            /\ memories[a].timestamp = memories[b].timestamp) => a = b

\* --------------------------------------------------------------------- C15
\* what a call of close() has appended to the log
ClosingSteps == SubSeq(io_log', Len(io_log) + 1, Len(io_log'))

ClosingStep == conn = "open" /\ conn' = "closed"

\* the original statement of C15: in every execution of close() the
\* knowledge-graph snapshot is written first, the vector index and its id/slot
\* mapping second, and only after both writes is the storage handle released.
C15_BothFlushedThenRelease ==
  [][ ClosingStep =>
        \E i, j, k \in 1..Len(ClosingSteps) :
          /\ i < j /\ j < k
          /\ ClosingSteps[i] = "knowledge_graph"
          /\ ClosingSteps[j] = "vector_index"
          /\ ClosingSteps[k] = "release"
          /\ \A m \in 1..Len(ClosingSteps) : ClosingSteps[m] = "release" => m = k ]_vars

\* C15 as amended: in every execution of close() the store flushes what it
\* owns before the storage handle is released, and the release is the last
\* step: MemoryEnhancer.close() writes the knowledge-graph snapshot first (an
\* error of the write is caught, the release still follows) and writes no
\* vector index; VectorMemorySystem.close() writes the vector index and its
\* id/slot mapping first when the embedding model is loaded, and writes no
\* knowledge-graph snapshot.
C15_OwnFlushThenRelease ==
  [][ ClosingStep =>
        LET steps == ClosingSteps IN
        /\ Len(steps) >= 1
        /\ \A m \in 1..Len(steps) : steps[m] = "release" <=> m = Len(steps)
        /\ system_class = "MemoryEnhancer" =>
             /\ steps[1] \in {"knowledge_graph", "knowledge_graph_failed"}
             /\ steps[1] = "knowledge_graph" => kg_file' = <<knowledge_graph>>
             /\ \A m \in 1..Len(steps) :
                  steps[m] \notin {"vector_index", "vector_index_failed"}
        /\ system_class = "VectorMemorySystem" =>
             /\ embedding_model = "loaded" =>
                  /\ steps[1] \in {"vector_index", "vector_index_failed"}
                  /\ steps[1] = "vector_index" =>
                       vector_files' = VectorSnapshot(vector_index, id_to_index_map,
                                                      index_to_id_map)
             /\ \A m \in 1..Len(steps) :
                  steps[m] \notin {"knowledge_graph", "knowledge_graph_failed"} ]_vars

\* a MemoryEnhancer with a non-empty graph and session has been closed: the
\* snapshot holds the graph and the handle is released
C15_Witness ==
  /\ system_class = "MemoryEnhancer"
  /\ conn = "closed"
  /\ io_log = <<"knowledge_graph", "session_summary", "release">>
  /\ DOMAIN knowledge_graph # {}
  /\ kg_file = <<knowledge_graph>>

\* --------------------------------------------------------------------- C16
UnitRange == 0..10

\* C16: for every importance a caller passes to insert, through the plain or
\* the analysing path, the importance of the stored record lies in [0.0, 1.0],
\* in the in-memory tier as in the durable table.
C16_ImportanceInUnitRange ==
  /\ \A e \in AllRecords : e.importance \in UnitRange
  /\ \A i \in 1..Len(working_memory) : working_memory[i].importance \in UnitRange
  /\ \A id \in DOMAIN memories : memories[id].importance \in UnitRange

\* --------------------------------------------------------------------- C18
\* the update_project_context calls that reached the table
UpdatesDone == { i \in 1..Len(project_updates) : ~project_updates[i].raised }

UpdatedNames == { project_updates[i].project_name : i \in UpdatesDone }

LastUpdateOf(n) ==
  project_updates[MaxOfSet({ i \in UpdatesDone : project_updates[i].project_name = n })]

\* C18: after any sequence of update_project_context calls, the table
\* project_contexts holds exactly one row per project name ever updated, the
\* row carries the tech stack and context data of the most recent call for
\* that name, and these equal what the in-process current context reports.
C18_OneLatestRowPerProject ==
  /\ DOMAIN project_contexts = UpdatedNames
  /\ \A n \in UpdatedNames :
       LET u == LastUpdateOf(n)
           row == project_contexts[n]
       IN /\ row.project_name = n
          /\ row.tech_stack = u.tech_stack
          /\ JsonLoads(row.context_data) =
               (IF FalsyDict(u.context_data) THEN EmptyFn ELSE u.context_data)
  /\ DOMAIN current_project_context # {} =>
       LET n == current_project_context.project_name IN
       /\ n \in DOMAIN project_contexts
       /\ project_contexts[n].tech_stack = current_project_context.tech_stack
       /\ JsonLoads(project_contexts[n].context_data) =
            current_project_context.context_data

\* --------------------------------------------------------------------- C19
UpdateStep == Len(project_updates') = Len(project_updates) + 1

LastUpdate == project_updates'[Len(project_updates')]

\* the record that the step has emitted
Emitted == inserted'[Len(inserted')].entry

\* the step has emitted exactly one record, of kind project, appended under
\* the project's name in the project partition and written to the table
OneProjectRecordEmitted(name) ==
  /\ Len(inserted') = Len(inserted) + 1
  /\ Emitted.memory_type = "project"
  /\ HasKey(project_memory', name)
  /\ Lookup(project_memory', name) =
       Append(IF HasKey(project_memory, name)
              THEN Lookup(project_memory, name) ELSE <<>>, Emitted)
  /\ \A i \in 1..Len(project_memory') :
       project_memory'[i].key # name =>
         /\ HasKey(project_memory, project_memory'[i].key)
         /\ Lookup(project_memory, project_memory'[i].key) = project_memory'[i].value
  /\ Emitted.id \in DOMAIN memories'
  /\ memories'[Emitted.id] = Emitted
  /\ DOMAIN memories' = DOMAIN memories \cup {Emitted.id}

\* the original statement of C19: each update_project_context call emits
\* exactly one synthetic record of kind project, stored under the project's
\* name in the project partition and in the table, and the record is
\* low-priority: its importance is below the 0.5 default.
C19_OneLowPriorityRecord ==
  [][ UpdateStep =>
        /\ OneProjectRecordEmitted(LastUpdate.project_name)
        /\ Emitted.importance < 5 ]_vars

\* C19 as amended: each update_project_context call on an open store emits
\* exactly one synthetic record of kind project, stored under the project's
\* name in the project partition and in the table, and its importance is 0.8,
\* above the 0.5 default; a call on a closed store raises and emits nothing.
C19_OneRecordOfImportance08 ==
  [][ UpdateStep =>
        IF LastUpdate.raised
        THEN /\ conn = "closed"
             /\ UNCHANGED <<inserted, memories, tiers>>
        ELSE /\ conn = "open"
             /\ OneProjectRecordEmitted(LastUpdate.project_name)
             /\ Emitted.importance = ContextUpdateImportance
             /\ Emitted.importance > 5 ]_vars

\* two updates of one project have left their two records under its name and
\* in the table, both of importance 0.8
C19_Witness ==
  /\ HasKey(project_memory, S_web)
  /\ Len(Lookup(project_memory, S_web)) = 2
  /\ \A i \in 1..2 :
       LET e == Lookup(project_memory, S_web)[i] IN
       /\ e.importance = ContextUpdateImportance
       /\ "action" \in DOMAIN e.metadata
       /\ e.metadata["action"] = S_context_update
       /\ e.id \in DOMAIN memories
  /\ Cardinality(UpdatesDone) = 2

\* --------------------------------------------------------------------- C20
\* the rows that a step has removed from the table
Removed == (DOMAIN memories) \ (DOMAIN memories')

\* the step is a cleanup_old_memories call that reached the table
SweepStep == sweep_log' # sweep_log /\ ~sweep_log'.raised

AgeLimit == sweep_log'.days_old * DaySeconds

WorkingRows == { memories[id] : id \in { i \in DOMAIN memories :
                                          memories[i].memory_type = "working" } }

Ascending(p) == \A i, j \in 1..Len(p) : i < j => p[i].timestamp <= p[j].timestamp

\* the ring buffers of capacity 50 that inserting all durable working records
\* in ascending order of creation can leave (records of one creation time in
\* either order)
RebuiltRings ==
  { LastN(p, WorkingCapacity) : p \in { q \in Perms(WorkingRows) : Ascending(q) } }

\* C21: after a restart the working ring buffer rebuilt from the table has
\* the contents and order of a ring buffer of capacity 50 into which all
\* durable working records were inserted in ascending order of creation.
C21_RingRebuiltInOrder ==
  [][ (conn = "closed" /\ conn' = "open") => working_memory' \in RebuiltRings' ]_vars

\* --------------------------------------------------------------------- C22
\* how many times e occurs in the list s
CountIn(s, e) == Cardinality({ i \in 1..Len(s) : s[i] = e })

\* C22: smart_recall applies the floor after ranking and before truncation:
\* it returns exactly min(max_results, m) records, m being the number of
\* matching candidates of the selected tiers with importance >= the floor,
\* and they are the highest-ranked of these m, so that a record below the
\* floor never takes one of the max_results places.
C22_FloorBeforeCut ==
  \A q \in Queries, ts \in TypeFilters :
    LET c == Candidates(q, ts)
        ranked == ScoreAndRankResults(q, c, clock)
        score == [e \in Range(c) |-> FinalScore(q, e, clock)]
    IN \A n \in ResultCounts, x \in Floors :
         LET r == FilterAndCut(ranked, n, x)
             AtFloor(e) == e.importance >= x
             eligible == SelectSeq(c, AtFloor)
         IN /\ Len(r) = Min(n, Len(eligible))
            /\ \A e \in Range(r) : CountIn(r, e) <= CountIn(eligible, e)
            /\ \A e \in Range(eligible) :
                 CountIn(r, e) < CountIn(eligible, e) =>
                   \A k \in 1..Len(r) : score[r[k]] >= score[e]

\* the highest-ranked match is below the floor and the one place goes to the
\* next match, which is at the floor
C22_Witness ==
  \E q \in Queries, x \in Floors :
    LET ranked == ScoreAndRankResults(q, Candidates(q, AllTypes), clock) IN
    /\ Len(ranked) >= 2
    /\ ranked[1].entry.importance < x
    /\ ranked[1].score > ranked[2].score
    /\ FilterAndCut(ranked, 1, x) = <<ranked[2].entry>>

\* --------------------------------------------------------------------- C23
\* node["count"] of a tag, 0 for a tag without a node
CountOf(kg, t) == IF t \in DOMAIN kg THEN kg[t].count ELSE 0

\* the step is an insert through add_memory_with_analysis that was stored
StoredInsertStep ==
  /\ Len(inserted') = Len(inserted) + 1
  /\ inserted'[Len(inserted')].saved

\* C23: one insert raises the count of each tag on the record by exactly 1,
\* also when the tag list names a tag more than once, and leaves the counts of
\* all other tags unchanged; so the count of a tag's node is the number of
\* inserted records that carry the tag.
C23_CountOncePerRecord ==
  [][ StoredInsertStep =>
        LET carried == Range(inserted'[Len(inserted')].entry.tags) IN
        \A t \in (DOMAIN knowledge_graph') \cup carried :
          CountOf(knowledge_graph', t)
            = CountOf(knowledge_graph, t) + (IF t \in carried THEN 1 ELSE 0) ]_vars

\* --------------------------------------------------------------------- C24
\* C24: the query-time graph lookup returns every node whose tag occurs in the
\* lowercased query, and the related concepts attached to each returned node
\* are its (up to) three related tags with the highest co-occurrence counts,
\* in descending order of count.
C24_TopThreeByCount ==
  \A q \in EnhancerQueries :
    LET found == GetKnowledgeInsights(q) IN
    /\ DOMAIN found = RelevantTags(q)
    /\ \A t \in DOMAIN found :
         LET shown == found[t].related_concepts
             rel == knowledge_graph[t].related_tags
         IN /\ Len(shown) = Min(RelatedConceptsShown, Cardinality(DOMAIN rel))
            /\ Range(shown) \subseteq DOMAIN rel
            /\ \A i, j \in 1..Len(shown) : i < j => shown[i] # shown[j]
            /\ \A i, j \in 1..Len(shown) : i < j => rel[shown[i]] >= rel[shown[j]]
            /\ \A o \in (DOMAIN rel) \ Range(shown) :
                 \A i \in 1..Len(shown) : rel[shown[i]] >= rel[o]

\* --------------------------------------------------------------------- C25
\* the step is the 5th, 10th, ... stored insert of the session
PeriodicInsertStep ==
  /\ StoredInsertStep
  /\ Len(session_memories') = Len(session_memories) + 1
  /\ Len(session_memories') % KnowledgeGraphSavePeriod = 0

\* the step is a close() whose snapshot write did not fail
SavingCloseStep ==
  /\ ClosingStep
  /\ ClosingSteps[1] = "knowledge_graph"

\* C25: the snapshot of the knowledge graph is rewritten after every 5th
\* insert and on close(): immediately after the 5th, 10th, ... insert of a
\* session, and after close(), the snapshot on disk equals the graph in
\* memory.
C25_SnapshotEveryFifth ==
  [][ (PeriodicInsertStep \/ SavingCloseStep) => kg_file' = <<knowledge_graph'>> ]_vars

\* --------------------------------------------------------------------- C26
\* some row of the table carries the tag
OnSomeRow(t) == \E id \in DOMAIN memories : t \in Range(memories[id].tags)

Counted(t) ==
  /\ t \in DOMAIN knowledge_graph'
  /\ CountOf(knowledge_graph', t) > CountOf(knowledge_graph, t)

UnreadableAtStartup ==
  /\ conn = "closed" /\ conn' = "open"
  /\ Len(io_log') = Len(io_log) + 1
  /\ io_log'[Len(io_log')] \in {"index_unreadable", "mappings_unreadable"}

\* C27: if the vector index file or the id/slot mapping file cannot be read at
\* startup, construction of the store still succeeds and the persisted vector
\* index is discarded as a whole: the index in memory and both maps are empty
\* and consistent with each other.
C27_UnreadableIndexDiscarded ==
  [][ UnreadableAtStartup =>
        /\ vector_index' = <<>>
        /\ id_to_index_map' = EmptyFn
        /\ index_to_id_map' = EmptyFn ]_vars

\* --------------------------------------------------------------------- C28
\* the recency factor, times 10 * Week, the scorer uses for record e now
RecencyOf(e) == TimeFactor(clock - e.timestamp)

\* C28: for every record and every evaluation time the recency factor of the
\* scorer is max(0.1, 1 - age/week) and lies in [0.1, 1.0]: never below 0.1
\* however old the record, and exactly 0.1 once the age is at least 0.9 week.
C28_RecencyFactorFloored ==
  \A e \in AllRecords :
    LET age == clock - e.timestamp IN
    /\ RecencyOf(e) >= Week
    /\ RecencyOf(e) <= 10 * Week
    /\ 10 * age >= 9 * Week => RecencyOf(e) = Week
    /\ 10 * age < 9 * Week => RecencyOf(e) = 10 * Week - 10 * age

\* a record older than a week is scored next to one stored just now
C28_Witness ==
  /\ \E e \in AllRecords : clock - e.timestamp > Week /\ RecencyOf(e) = Week
  /\ \E e \in AllRecords : clock = e.timestamp /\ RecencyOf(e) = 10 * Week

\* ------------------------------------------- hybrid_memory.py: the loader
\* LIMIT 20 of the SELECT that reloads the working records
LoadLimit == 20

\* _generate_id(content) as the loader calls it: the digest of the content
\* alone, where add_memory digests the content followed by the clock reading
\* (a clock reading is never -1)
LoadedId(content) == GenerateId(content, -1)

\* MemoryEntry(...) as built by the loader from the four selected columns;
\* tags and metadata take the defaults of __post_init__
LoadedEntry(row) ==
  [ id |-> LoadedId(row.content),
    content |-> row.content,
    timestamp |-> row.timestamp,
    memory_type |-> row.memory_type,
    importance |-> row.importance,
    tags |-> <<>>,
    metadata |-> NoMeta ]

\* _load_existing_memories: the newest LoadLimit working rows, newest first,
\* each pushed on the left of the deque: they end oldest first (rows of one
\* timestamp come in whatever order the SELECT gives them)
LoadExistingMemories ==
  { [ i \in 1..Len(q) |-> LoadedEntry(q[i]) ] :
      q \in { LastN(p, Min(LoadLimit, WorkingCapacity)) :
                p \in { o \in Perms(WorkingRows) : Ascending(o) } } }

\* HybridMemorySystem(memory_dir) of hybrid_memory.py on the directory of a
\* closed store: _init_memory_components ends in _load_existing_memories
ReopenAndLoad ==
  /\ conn = "closed"
  /\ nRestarts < MaxRestarts
  /\ nRestarts' = nRestarts + 1
  /\ conn' = "open"
  /\ working_memory' \in LoadExistingMemories
  /\ semantic_memory' = EmptyDict
  /\ episodic_memory' = <<>>
  /\ procedural_memory' = EmptyDict
  /\ project_memory' = EmptyDict
  /\ procStart' = Len(inserted)
  /\ result' = [raised |-> FALSE, id |-> NoId]
  /\ current_project_context' = EmptyFn
  /\ UNCHANGED <<memories, clock, inserted, nAdds, project_contexts,
                 project_updates, enhancerVars, vectorVars, io_log,
                 system_class, sweep_log, agentVars>>

NextLoad == Add \/ Close \/ ReopenAndLoad

SpecLoad == Init /\ [][NextLoad]_vars

\* --------------------------------------------------------------------- C29
\* the durable rows stored for tier record e: same content, same creation time
RowsOf(e) ==
  { id \in DOMAIN memories : /\ memories[id].content = e.content
                            /\ memories[id].timestamp = e.timestamp }

\* the ids insert has returned
ReturnedIds == { inserted[i].entry.id : i \in { j \in 1..Len(inserted) : inserted[j].saved } }

\* C29: a record's id is stable: every record held in an in-memory tier,
\* including one rebuilt from the durable store at startup, carries the id of
\* the durable row it was stored under, which is the id insert returned for it.
C29_TierIdIsRowId ==
  \A e \in AllRecords :
    RowsOf(e) # {} => /\ RowsOf(e) = {e.id}
                      /\ e.id \in ReturnedIds

\* --------------------------------------------------------------------- C30
\* the step is the return of a call of process_query, or its exception
QueryEnds == process_query.at # "returned" /\ process_query'.at = "returned"

\* a step of the call failed: control reached the except clause
StepFailed == process_query.at = "except"

\* C30: process_query never lets an exception escape: whatever step fails
\* (context retrieval, response generation, a memory insert, the insert that
\* logs the error included), it returns an AgentResponse, with success=False
\* and agent state ERROR when a step failed, and with success=True and agent
\* state IDLE otherwise.
C30_AlwaysAnAgentResponse ==
  [][ QueryEnds =>
        /\ response'.kind = "AgentResponse"
        /\ response'.success = ~StepFailed
        /\ state' = IF StepFailed THEN "error" ELSE "idle" ]_vars

====
